---- MODULE Spec2Model ----
(***************************************************************************)
(* Elevatr front end: the prediction workflow of App (handlePredict,       *)
(* handleReset, the results panel) and of StudentForm (formData, the       *)
(* input handlers, validateForm, handleSubmit).                            *)
(*                                                                         *)
(* Numbers are integers.  previous_gpa is kept in tenths (7.5 is 75), so   *)
(* the bounds 5.0 and 10.0 of validateForm are 50 and 100.  The JavaScript *)
(* value NaN, which parseInt and parseFloat return for an empty or         *)
(* non-numeric input, is the value NaN below; every comparison with it is  *)
(* false, as in JavaScript (JsLt, JsGt).                                   *)
(***************************************************************************)
EXTENDS Integers, Sequences, FiniteSets, TLC

VARIABLES
    formData,     \* StudentForm: useState formData
    prediction,   \* App: useState prediction (null or the service's result)
    loading,      \* App: useState loading
    error,        \* App: useState error (null or a message)
    inflight,     \* the handlePredict invocations that are suspended at an await
    lastOp        \* the handler that ran last (history, read by the properties only)

vars == <<formData, prediction, loading, error, inflight, lastOp>>

---------------------------------------------------------------------------
(* Values *)

\* JavaScript null, the initial value of prediction and error.
null == [null |-> TRUE]

\* A property that is absent from a parsed JSON object.
undefined == [undefined |-> TRUE]

\* A JavaScript string in a place that may also hold null or undefined.
S(text) == [str |-> text]

\* The result of parseInt / parseFloat on an empty or non-numeric input.
NaN == -1000000

\* What JSON.stringify writes for a NaN number.
JsonNull == -2000000

\* JavaScript a < b and a > b on numbers: false when either side is NaN.
JsLt(a, b) == a # NaN /\ b # NaN /\ a < b
JsGt(a, b) == a # NaN /\ b # NaN /\ a > b

\* A JavaScript number in a place that may also hold another kind of value.
N(number) == [num |-> number]

\* JavaScript truthiness: null, undefined, the empty string and 0 are falsy.
Truthy(v) == v # null /\ v # undefined /\ v # S("") /\ v # N(0)

\* JavaScript a || b.
JsOr(a, b) == IF Truthy(a) THEN a ELSE b

---------------------------------------------------------------------------
(* Bounds of the model *)

\* How far outside a range the modelled out-of-range inputs lie.
Margin == 1

\* The longest feature name FeatureChart is given, in characters.
MaxNameLen == 3

\* The longest recommendation RecommendationList is given, in words.
MaxWords == 2

---------------------------------------------------------------------------
(* StudentForm.jsx *)

Fields == {"age", "gender", "study_hours_weekly", "attendance_percent",
           "previous_gpa", "assignments_completed", "participation_score",
           "midterm_score", "hours_on_platform"}

\* The ranges validateForm checks (previous_gpa in tenths).
AgeMin == 18
AgeMax == 25
StudyMin == 5
StudyMax == 40
GpaMin == 50
GpaMax == 100
PlatformMin == 10
PlatformMax == 200

\* min and max of the three 0..100 range sliders and of the attendance slider.
SliderMin == 0
SliderMax == 100

InitialFormData ==
    [age |-> 20, gender |-> "M", study_hours_weekly |-> 20,
     attendance_percent |-> 80, previous_gpa |-> 75,
     assignments_completed |-> 80, participation_score |-> 70,
     midterm_score |-> 75, hours_on_platform |-> 100]

SAMPLE_STUDENTS ==
    << [name |-> "High Performer",
        data |-> [age |-> 21, gender |-> "F", study_hours_weekly |-> 32,
                  attendance_percent |-> 95, previous_gpa |-> 92,
                  assignments_completed |-> 98, participation_score |-> 90,
                  midterm_score |-> 92, hours_on_platform |-> 150]],
       [name |-> "Average Student",
        data |-> [age |-> 20, gender |-> "M", study_hours_weekly |-> 18,
                  attendance_percent |-> 78, previous_gpa |-> 72,
                  assignments_completed |-> 75, participation_score |-> 65,
                  midterm_score |-> 68, hours_on_platform |-> 85]],
       [name |-> "At-Risk Student",
        data |-> [age |-> 19, gender |-> "F", study_hours_weekly |-> 8,
                  attendance_percent |-> 55, previous_gpa |-> 58,
                  assignments_completed |-> 45, participation_score |-> 35,
                  midterm_score |-> 42, hours_on_platform |-> 25]] >>

\* The messages of validateForm.
AgeMessage == S("Age must be between 18-25")
StudyMessage == S("Study hours must be between 5-40")
GpaMessage == S("Previous GPA must be between 5.0-10.0")
PlatformMessage == S("Platform hours must be between 10-200")

\* validateForm with the upper bound of the age rule left out.
validateFormAgeLowerOnly(fd) ==
    IF JsLt(fd.age, AgeMin) THEN AgeMessage
    ELSE IF JsLt(fd.study_hours_weekly, StudyMin) \/ JsGt(fd.study_hours_weekly, StudyMax)
        THEN StudyMessage
    ELSE IF JsLt(fd.previous_gpa, GpaMin) \/ JsGt(fd.previous_gpa, GpaMax)
        THEN GpaMessage
    ELSE IF JsLt(fd.hours_on_platform, PlatformMin) \/ JsGt(fd.hours_on_platform, PlatformMax)
        THEN PlatformMessage
    ELSE null

\* validateForm with the age rule using <= and >= (a boundary slip).
validateFormStrict(fd) ==
    IF ~JsGt(fd.age, AgeMin) \/ ~JsLt(fd.age, AgeMax) THEN AgeMessage
    ELSE IF JsLt(fd.study_hours_weekly, StudyMin) \/ JsGt(fd.study_hours_weekly, StudyMax)
        THEN StudyMessage
    ELSE IF JsLt(fd.previous_gpa, GpaMin) \/ JsGt(fd.previous_gpa, GpaMax)
        THEN GpaMessage
    ELSE IF JsLt(fd.hours_on_platform, PlatformMin) \/ JsGt(fd.hours_on_platform, PlatformMax)
        THEN PlatformMessage
    ELSE null

\* validateForm with the study-hours rule tested before the age rule.
validateFormReordered(fd) ==
    IF JsLt(fd.study_hours_weekly, StudyMin) \/ JsGt(fd.study_hours_weekly, StudyMax)
        THEN StudyMessage
    ELSE IF JsLt(fd.age, AgeMin) \/ JsGt(fd.age, AgeMax) THEN AgeMessage
    ELSE IF JsLt(fd.previous_gpa, GpaMin) \/ JsGt(fd.previous_gpa, GpaMax)
        THEN GpaMessage
    ELSE IF JsLt(fd.hours_on_platform, PlatformMin) \/ JsGt(fd.hours_on_platform, PlatformMax)
        THEN PlatformMessage
    ELSE null

\* validateForm with a fifth rule, on attendance_percent, put first.
validateFormAttendance(fd) ==
    IF JsLt(fd.attendance_percent, 1) THEN S("Attendance must be between 1-100")
    ELSE IF JsLt(fd.age, AgeMin) \/ JsGt(fd.age, AgeMax) THEN AgeMessage
    ELSE IF JsLt(fd.study_hours_weekly, StudyMin) \/ JsGt(fd.study_hours_weekly, StudyMax)
        THEN StudyMessage
    ELSE IF JsLt(fd.previous_gpa, GpaMin) \/ JsGt(fd.previous_gpa, GpaMax)
        THEN GpaMessage
    ELSE IF JsLt(fd.hours_on_platform, PlatformMin) \/ JsGt(fd.hours_on_platform, PlatformMax)
        THEN PlatformMessage
    ELSE null

\* validateForm with the platform-hours bound 200 mistyped as 100.
validateFormPlatformMax100(fd) ==
    IF JsLt(fd.age, AgeMin) \/ JsGt(fd.age, AgeMax) THEN AgeMessage
    ELSE IF JsLt(fd.study_hours_weekly, StudyMin) \/ JsGt(fd.study_hours_weekly, StudyMax)
        THEN StudyMessage
    ELSE IF JsLt(fd.previous_gpa, GpaMin) \/ JsGt(fd.previous_gpa, GpaMax)
        THEN GpaMessage
    ELSE IF JsLt(fd.hours_on_platform, PlatformMin) \/ JsGt(fd.hours_on_platform, 100)
        THEN PlatformMessage
    ELSE null

\* validateForm: the first failing rule's message, or null.
validateForm(fd) ==
    IF JsLt(fd.age, AgeMin) \/ JsGt(fd.age, AgeMax) THEN AgeMessage
    ELSE IF JsLt(fd.study_hours_weekly, StudyMin) \/ JsGt(fd.study_hours_weekly, StudyMax)
        THEN StudyMessage
    ELSE IF JsLt(fd.previous_gpa, GpaMin) \/ JsGt(fd.previous_gpa, GpaMax)
        THEN GpaMessage
    ELSE IF JsLt(fd.hours_on_platform, PlatformMin) \/ JsGt(fd.hours_on_platform, PlatformMax)
        THEN PlatformMessage
    ELSE null

\* The values an input element hands to handleInputChange.  A number input
\* (age, previous_gpa, hours_on_platform) accepts any typed number, its min and
\* max only mark it invalid, and an empty or non-numeric text parses to NaN.
\* A range slider clamps its value to min..max.  The select has two options.
InputValues(field) ==
    CASE field = "age" -> {NaN, AgeMin - Margin}
      [] field = "previous_gpa" -> {NaN, GpaMax + Margin}
      [] field = "hours_on_platform" -> {NaN, PlatformMin - Margin}
      [] field = "study_hours_weekly" -> {StudyMin}
      [] field = "gender" -> {"M", "F"}
      [] OTHER -> {SliderMax}

\* disabled={loading} of the submit button with the attribute left out.
SubmitEnabledAlways == TRUE

\* The submit button: disabled={loading}.  handlePredict calls setLoading(true)
\* inside the click handler, and React renders that update before the next
\* event is dispatched, so the button is disabled from the click on.
SubmitEnabled == ~loading

\* disabled={loading} of the inputs and sample buttons left out.
InputsEnabledAlways == TRUE

\* The inputs and the sample buttons: disabled={loading}.
InputsEnabled == ~loading

---------------------------------------------------------------------------
(* App: the prediction service as the client sees it *)

\* Two results of the service (confidence in percent): the end-to-end example
\* of the spec, and one whose grade, risk level and impact tag are outside the
\* documented enumerations.
Results ==
    { [predicted_grade |-> "A", confidence |-> 91, risk_level |-> "low",
       risk_score |-> 12, recommendations |-> <<"Keep up the excellent work">>,
       feature_impacts |-> [study_hours_weekly |-> "strong_positive"]],
      [predicted_grade |-> "Z", confidence |-> 50, risk_level |-> "LOW",
       risk_score |-> 60, recommendations |-> <<>>,
       feature_impacts |-> [attendance |-> "unknown_tag"]] }

\* A response body that is not JSON.
Malformed == [malformed |-> TRUE]

\* The JSON bodies of a non-success response: with an error message, with an
\* empty error string, and without an error field.
ErrorBodies ==
    { [error |-> S("Invalid input data")], [error |-> S("")], [error |-> undefined] }

\* What fetch resolves with: the ok flag and the body that response.json() reads.
Responses ==
    [ok : {TRUE}, body : Results \cup {Malformed}]
        \cup [ok : {FALSE}, body : ErrorBodies \cup {Malformed}]

\* The message of the exception of a rejected fetch or of a failed
\* response.json(); an exception may carry an empty message.
ExceptionMessages == {S("Failed to fetch"), S("")}

\* JSON.stringify(formData): a NaN number is written as null.
JSONstringify(fd) ==
    [f \in DOMAIN fd |-> IF f # "gender" /\ fd[f] = NaN THEN JsonNull ELSE fd[f]]

\* The sequence s without its i-th element.
RemoveAt(s, i) == SubSeq(s, 1, i - 1) \o SubSeq(s, i + 1, Len(s))

---------------------------------------------------------------------------
(* Initial state: App and StudentForm after the first render *)

Init ==
    /\ formData = InitialFormData
    /\ prediction = null
    /\ loading = FALSE
    /\ error = null
    /\ inflight = <<>>
    /\ lastOp = "init"

---------------------------------------------------------------------------
(* StudentForm handlers *)

\* handleInputChange writing { ...prev, field: value }: the key is the word
\* "field", not the field's name.
handleInputChangeLiteralKey(field, value) ==
    /\ InputsEnabled
    /\ formData' = [k \in DOMAIN formData \cup {"field"} |->
                        IF k = "field" THEN value ELSE formData[k]]
    /\ error' = null
    /\ lastOp' = "handleInputChange"
    /\ UNCHANGED <<prediction, loading, inflight>>

\* handleInputChange(field, value): an input's onChange.
handleInputChange(field, value) ==
    /\ InputsEnabled
    /\ formData' = [formData EXCEPT ![field] = value]
    /\ error' = null
    /\ lastOp' = "handleInputChange"
    /\ UNCHANGED <<prediction, loading, inflight>>

\* loadSampleStudent with onError(null) left out.
loadSampleStudentKeepError(sample) ==
    /\ InputsEnabled
    /\ formData' = sample.data
    /\ lastOp' = "loadSampleStudent"
    /\ UNCHANGED <<prediction, loading, error, inflight>>

\* loadSampleStudent(sample): a sample button's onClick.
loadSampleStudent(sample) ==
    /\ InputsEnabled
    /\ formData' = sample.data
    /\ error' = null
    /\ lastOp' = "loadSampleStudent"
    /\ UNCHANGED <<prediction, loading, inflight>>

\* handlePredict with setError(null) left out.
handlePredictStartKeepError(fd) ==
    /\ loading' = TRUE
    /\ error' = error
    /\ inflight' = Append(inflight, [body |-> JSONstringify(fd), pc |-> "fetch",
                                     response |-> null])
    /\ UNCHANGED prediction

\* handlePredict with setLoading(true) left out.
handlePredictStartNoLoading(fd) ==
    /\ error' = null
    /\ inflight' = Append(inflight, [body |-> JSONstringify(fd), pc |-> "fetch",
                                     response |-> null])
    /\ UNCHANGED <<prediction, loading>>

\* handlePredict up to its first await: setLoading(true), setError(null), fetch.
handlePredictStart(fd) ==
    /\ loading' = TRUE
    /\ error' = null
    /\ inflight' = Append(inflight, [body |-> JSONstringify(fd), pc |-> "fetch",
                                     response |-> null])
    /\ UNCHANGED prediction

\* handleSubmit without the return after onError(validationError).
handleSubmitNoReturn ==
    /\ SubmitEnabled
    /\ handlePredictStart(formData)
    /\ lastOp' = IF validateForm(formData) # null THEN "handleSubmit:invalid"
                 ELSE "handleSubmit:sent"
    /\ UNCHANGED formData

\* handleSubmit: the submit button's onClick.
handleSubmit ==
    /\ SubmitEnabled
    /\ IF validateForm(formData) # null
       THEN /\ error' = validateForm(formData)
            /\ lastOp' = "handleSubmit:invalid"
            /\ UNCHANGED <<prediction, loading, inflight>>
       ELSE /\ handlePredictStart(formData)
            /\ lastOp' = "handleSubmit:sent"
    /\ UNCHANGED formData

---------------------------------------------------------------------------
(* App handlers *)

\* The catch block of handlePredict calling fetch again instead of giving up.
handlePredictCatchRetry(i, message) ==
    /\ inflight' = Append(RemoveAt(inflight, i),
                          [inflight[i] EXCEPT !.pc = "fetch", !.response = null])
    /\ UNCHANGED <<prediction, loading, error>>

\* The catch block of handlePredict without the finally block.
handlePredictCatchNoFinally(i, message) ==
    /\ error' = JsOr(message, S("Failed to connect to API"))
    /\ inflight' = RemoveAt(inflight, i)
    /\ UNCHANGED <<prediction, loading>>

\* The catch and finally blocks of handlePredict, for invocation i:
\* setError(err.message || 'Failed to connect to API'), setLoading(false).
handlePredictCatch(i, message) ==
    /\ error' = JsOr(message, S("Failed to connect to API"))
    /\ loading' = FALSE
    /\ inflight' = RemoveAt(inflight, i)
    /\ UNCHANGED prediction

\* The fetch of invocation i rejects (the service cannot be reached).
FetchRejects(i, message) ==
    /\ inflight[i].pc = "fetch"
    /\ handlePredictCatch(i, message)
    /\ lastOp' = "handlePredict:catch"
    /\ UNCHANGED formData

\* The fetch of invocation i resolves; handlePredict goes on to response.json().
FetchResolves(i, response) ==
    /\ inflight[i].pc = "fetch"
    /\ inflight' = [inflight EXCEPT ![i].pc = "json", ![i].response = response]
    /\ lastOp' = "handlePredict:response"
    /\ UNCHANGED <<formData, prediction, loading, error>>

\* JsonSettles with the non-success branch throwing new Error('Prediction failed')
\* whatever errorData holds.
JsonSettlesGenericError(i, message) ==
    /\ inflight[i].pc = "json"
    /\ LET response == inflight[i].response IN
       IF response.body = Malformed
       THEN /\ handlePredictCatch(i, message)
            /\ lastOp' = "handlePredict:catch"
       ELSE IF ~response.ok
       THEN /\ handlePredictCatch(i, S("Prediction failed"))
            /\ lastOp' = "handlePredict:catch"
       ELSE /\ prediction' = response.body
            /\ loading' = FALSE
            /\ inflight' = RemoveAt(inflight, i)
            /\ lastOp' = "handlePredict:success"
            /\ UNCHANGED error
    /\ UNCHANGED formData

\* response.json() of invocation i settles: the rest of handlePredict.
JsonSettles(i, message) ==
    /\ inflight[i].pc = "json"
    /\ LET response == inflight[i].response IN
       IF response.body = Malformed
       THEN \* response.json() rejects
            /\ handlePredictCatch(i, message)
            /\ lastOp' = "handlePredict:catch"
       ELSE IF ~response.ok
       THEN \* throw new Error(errorData.error || 'Prediction failed')
            /\ handlePredictCatch(i, JsOr(response.body.error, S("Prediction failed")))
            /\ lastOp' = "handlePredict:catch"
       ELSE \* setPrediction(result); finally setLoading(false)
            /\ prediction' = response.body
            /\ loading' = FALSE
            /\ inflight' = RemoveAt(inflight, i)
            /\ lastOp' = "handlePredict:success"
            /\ UNCHANGED error
    /\ UNCHANGED formData

\* The results panel with the stored prediction tested before loading.
ResultsViewPredictionFirst ==
    IF prediction # null THEN "results"
    ELSE IF loading THEN "skeleton"
    ELSE "landing"

\* The results panel of the first App in part_000, which has the same state and
\* the same handlePredict and no loading view: the result cards whenever a
\* prediction is stored, the landing state otherwise.
App1ResultsView ==
    IF prediction # null THEN "results" ELSE "landing"

\* The results panel: the loading skeleton, the result cards or the landing state.
ResultsView ==
    IF loading THEN "skeleton"
    ELSE IF prediction # null THEN "results"
    ELSE "landing"

\* handleReset with setError(null) left out.
handleResetKeepError ==
    /\ ResultsView = "results"
    /\ prediction' = null
    /\ error' = error
    /\ lastOp' = "handleReset"
    /\ UNCHANGED <<formData, loading, inflight>>

\* handleReset: the Reset button, rendered with the result cards only.
handleReset ==
    /\ ResultsView = "results"
    /\ prediction' = null
    /\ error' = null
    /\ lastOp' = "handleReset"
    /\ UNCHANGED <<formData, loading, inflight>>

---------------------------------------------------------------------------
(* View classifiers: ResultCard, RiskBadge, FeatureChart *)

\* The properties every object literal inherits from Object.prototype.
ObjectPrototypeKeys ==
    {"constructor", "toString", "toLocaleString", "valueOf", "hasOwnProperty",
     "isPrototypeOf", "propertyIsEnumerable", "__proto__"}

\* The value of an inherited property: a function or object of Object.prototype.
Inherited(key) == [inherited |-> key]

\* table[key] on an object literal: an own property, else a property inherited
\* from Object.prototype, else undefined.
Lookup(table, key) ==
    IF key \in DOMAIN table THEN table[key]
    ELSE IF key \in ObjectPrototypeKeys THEN Inherited(key)
    ELSE undefined

\* ResultCard: the descriptions table of getGradeDescription.
descriptions ==
    [S |-> S("Outstanding Performance"), A |-> S("Excellent Work"),
     B |-> S("Good Performance"), C |-> S("Satisfactory"),
     D |-> S("Needs Improvement"), F |-> S("Requires Intervention")]

\* ResultCard: getGradeDescription(grade).
getGradeDescription(grade) == JsOr(Lookup(descriptions, grade), S("Grade Predicted"))

\* RiskBadge: the configs table of getRiskConfig.
configs ==
    [low |-> [icon |-> "CheckCircle", color |-> "text-green-600",
              bg |-> "bg-green-50 border-green-200", dotColor |-> "bg-green-500",
              label |-> "Low Risk", description |-> "Student is performing well"],
     medium |-> [icon |-> "AlertCircle", color |-> "text-yellow-600",
                 bg |-> "bg-yellow-50 border-yellow-200", dotColor |-> "bg-yellow-500",
                 label |-> "Medium Risk", description |-> "Monitor student progress"],
     high |-> [icon |-> "AlertTriangle", color |-> "text-red-600",
               bg |-> "bg-red-50 border-red-200", dotColor |-> "bg-red-500",
               label |-> "High Risk", description |-> "Intervention recommended"]]

\* RiskBadge: getRiskConfig(riskLevel).
getRiskConfig(riskLevel) == JsOr(Lookup(configs, riskLevel), configs["medium"])

\* FeatureChart: the widths table of getImpactWidth.
widths ==
    [strong_positive |-> N(100), positive |-> N(70), neutral |-> N(40),
     negative |-> N(70), strong_negative |-> N(100)]

\* getImpactWidth with strong_positive given the width of positive.
getImpactWidthFlat(impact) ==
    JsOr(Lookup([widths EXCEPT !["strong_positive"] = N(70)], impact), N(40))

\* FeatureChart: getImpactWidth(impact).
getImpactWidth(impact) == JsOr(Lookup(widths, impact), N(40))

\* obj.name: undefined when the object has no such property.
Prop(obj, name) == IF name \in DOMAIN obj THEN obj[name] ELSE undefined

\* What the result cards show for a stored prediction: the description of
\* ResultCard, the config of RiskBadge and the bar width of each feature of
\* FeatureChart, keyed by the feature name as the service sent it.
ResultCardDescription == getGradeDescription(prediction.predicted_grade)
RiskBadgeConfig == getRiskConfig(prediction.risk_level)
FeatureChartWidths ==
    [feature \in DOMAIN prediction.feature_impacts |->
        getImpactWidth(prediction.feature_impacts[feature])]

\* FeatureChart's display names.  A feature name is a sequence of characters,
\* each a one-character string.

\* String.prototype.toUpperCase on one character of the alphabet used here.
toUpperCase(c) ==
    CASE c = "a" -> "A"
      [] c = "b" -> "B"
      [] OTHER -> c

\* name.replace(/_/g, ' '): every underscore becomes a space.
replaceUnderscores(name) ==
    [i \in 1..Len(name) |-> IF name[i] = "_" THEN " " ELSE name[i]]

\* name.replace(/_/, ' '), without the g flag: the first underscore only.
replaceFirstUnderscore(name) ==
    [i \in 1..Len(name) |->
        IF name[i] = "_" /\ \A j \in 1..(i - 1) : name[j] # "_" THEN " "
        ELSE name[i]]

\* text.split(sep): the pieces between the separators; one piece, possibly
\* empty, when there is no separator.
RECURSIVE split(_, _)
split(text, sep) ==
    IF \A i \in 1..Len(text) : text[i] # sep THEN <<text>>
    ELSE LET i == CHOOSE k \in 1..Len(text) :
                      text[k] = sep /\ \A j \in 1..(k - 1) : text[j] # sep
         IN <<SubSeq(text, 1, i - 1)>> \o split(SubSeq(text, i + 1, Len(text)), sep)

\* words.join(sep), for the non-empty arrays split returns.
RECURSIVE join(_, _)
join(words, sep) ==
    IF Len(words) = 1 THEN words[1]
    ELSE words[1] \o <<sep>> \o join(Tail(words), sep)

\* word.charAt(0).toUpperCase() + word.slice(1); charAt(0) of '' is ''.
capitalize(word) ==
    IF word = <<>> THEN <<>> ELSE <<toUpperCase(word[1])>> \o Tail(word)

\* formatFeatureName with replace(/_/, ' ') in place of replace(/_/g, ' ').
formatFeatureNameFirstOnly(name) ==
    LET words == split(replaceFirstUnderscore(name), " ")
    IN join([k \in 1..Len(words) |-> capitalize(words[k])], " ")

\* formatFeatureName: replace, split, capitalise each word, join.
formatFeatureName(name) ==
    LET words == split(replaceUnderscores(name), " ")
    IN join([k \in 1..Len(words) |-> capitalize(words[k])], " ")

\* The rows FeatureChart renders for the stored prediction, one per entry of
\* Object.entries(impacts): the React key is the feature name as sent, the
\* label is its formatted name, the bar width comes from the entry's own tag.
FeatureChartRows ==
    {[key |-> feature, label |-> formatFeatureName(feature),
      width |-> getImpactWidth(prediction.feature_impacts[feature])] :
        feature \in DOMAIN prediction.feature_impacts}

\* RecommendationList's colour classes.  A recommendation is a sequence of
\* characters, each a one-character string; the three pictographs are written
\* by name: "CHECK" is the check mark, "SIREN" the siren, and the warning marker
\* is the two characters "WARNING" and "VS16" (its variation selector).

UpperCaseLetters ==
    <<"A", "B", "C", "D", "E", "F", "G", "H", "I", "J", "K", "L", "M",
      "N", "O", "P", "Q", "R", "S", "T", "U", "V", "W", "X", "Y", "Z">>
LowerCaseLetters ==
    <<"a", "b", "c", "d", "e", "f", "g", "h", "i", "j", "k", "l", "m",
      "n", "o", "p", "q", "r", "s", "t", "u", "v", "w", "x", "y", "z">>

\* text.toLowerCase()
toLowerCase(text) ==
    [i \in 1..Len(text) |->
        IF \E k \in DOMAIN UpperCaseLetters : UpperCaseLetters[k] = text[i]
        THEN LowerCaseLetters[CHOOSE k \in DOMAIN UpperCaseLetters :
                                  UpperCaseLetters[k] = text[i]]
        ELSE text[i]]

\* text.includes(keyword): keyword occurs in text as a substring.
includes(text, keyword) ==
    \E i \in 1..(Len(text) - Len(keyword) + 1) :
        SubSeq(text, i, i + Len(keyword) - 1) = keyword

\* The keywords of getRecommendationColor, branch by branch.
PositiveKeywords ==
    {<<"e", "x", "c", "e", "l", "l", "e", "n", "t">>,
     <<"g", "r", "e", "a", "t">>,
     <<"o", "u", "t", "s", "t", "a", "n", "d", "i", "n", "g">>,
     <<"CHECK">>}
WarningKeywords ==
    {<<"i", "n", "c", "r", "e", "a", "s", "e">>,
     <<"i", "m", "p", "r", "o", "v", "e">>,
     <<"f", "o", "c", "u", "s">>,
     <<"WARNING", "VS16">>}
UrgentKeywords ==
    {<<"u", "r", "g", "e", "n", "t">>,
     <<"c", "r", "i", "t", "i", "c", "a", "l">>,
     <<"SIREN">>}

Green == "bg-green-50 border-green-200 text-green-800"
Yellow == "bg-yellow-50 border-yellow-200 text-yellow-800"
Red == "bg-red-50 border-red-200 text-red-800"
Blue == "bg-blue-50 border-blue-200 text-blue-800"

\* getRecommendationColor: the first branch with a keyword in the lower-cased
\* text, in the order positive, warning, urgent; blue when none has one.
getRecommendationColor(text) ==
    LET lowerText == toLowerCase(text) IN
    IF \E keyword \in PositiveKeywords : includes(lowerText, keyword) THEN Green
    ELSE IF \E keyword \in WarningKeywords : includes(lowerText, keyword) THEN Yellow
    ELSE IF \E keyword \in UrgentKeywords : includes(lowerText, keyword) THEN Red
    ELSE Blue

\* The colour class of each item RecommendationList renders for the stored
\* prediction.
RecommendationColors ==
    [idx \in DOMAIN prediction.recommendations |->
        getRecommendationColor(prediction.recommendations[idx])]

---------------------------------------------------------------------------
(* The application *)

Next ==
    \/ \E field \in Fields : \E value \in InputValues(field) :
            handleInputChange(field, value)
    \/ \E k \in DOMAIN SAMPLE_STUDENTS : loadSampleStudent(SAMPLE_STUDENTS[k])
    \/ handleSubmit
    \/ \E i \in DOMAIN inflight : \E message \in ExceptionMessages :
            FetchRejects(i, message)
    \/ \E i \in DOMAIN inflight : \E response \in Responses :
            FetchResolves(i, response)
    \/ \E i \in DOMAIN inflight : \E message \in ExceptionMessages :
            JsonSettles(i, message)
    \/ handleReset

Spec == Init /\ [][Next]_vars

\* The steps the application takes by itself or on a user's event, the service
\* taking no part.  handlePredict starts no timer and hands fetch no abort
\* signal, so these are the user's events only.
LocalStep ==
    \/ \E field \in Fields : \E value \in InputValues(field) :
            handleInputChange(field, value)
    \/ \E k \in DOMAIN SAMPLE_STUDENTS : loadSampleStudent(SAMPLE_STUDENTS[k])
    \/ handleSubmit
    \/ handleReset

\* A pending await of handlePredict settles: the fetch resolves or rejects, or
\* response.json() resolves or rejects.
AwaitSettles ==
    \/ \E i \in DOMAIN inflight : \E message \in ExceptionMessages :
            FetchRejects(i, message)
    \/ \E i \in DOMAIN inflight : \E response \in Responses :
            FetchResolves(i, response)
    \/ \E i \in DOMAIN inflight : \E message \in ExceptionMessages :
            JsonSettles(i, message)

\* The application when every request eventually completes or fails: a pending
\* await does not stay pending forever, and the event loop then runs the
\* continuation of handlePredict.
SpecFair == Spec /\ WF_vars(AwaitSettles)

---------------------------------------------------------------------------
(* validateForm and handleSubmit on a grid of profiles *)

\* The sample values of a checked field with range lo..hi: NaN, both bounds and
\* a value on either side of the range.
RangeSamples(lo, hi) == {NaN, lo - Margin, lo, hi, hi + Margin}

\* The profiles handleSubmit is applied to: every combination of the samples of
\* the four checked fields and of two values of each unchecked field.
ProfileGrid ==
    [age : RangeSamples(AgeMin, AgeMax),
     gender : {"M", "F"},
     study_hours_weekly : RangeSamples(StudyMin, StudyMax),
     attendance_percent : {SliderMin, SliderMax},
     previous_gpa : RangeSamples(GpaMin, GpaMax),
     assignments_completed : {SliderMin, SliderMax},
     participation_score : {SliderMin, SliderMax},
     midterm_score : {SliderMin, SliderMax},
     hours_on_platform : RangeSamples(PlatformMin, PlatformMax)]

InitValidate ==
    /\ formData \in ProfileGrid
    /\ prediction = null
    /\ loading = FALSE
    /\ error = null
    /\ inflight = <<>>
    /\ lastOp = "init"

NextValidate == handleSubmit

SpecValidate == InitValidate /\ [][NextValidate]_vars

---------------------------------------------------------------------------
(* The view classifiers on a grid of service results *)

\* Grades, risk levels and impact tags the service may send: the documented
\* ones, unknown ones, and names that Object.prototype defines.
GradeSamples == {"S", "A", "B", "C", "D", "F", "Z", "", "constructor"}
RiskSamples == {"low", "medium", "high", "", "LOW", "constructor", "toString"}
ImpactSamples ==
    {"strong_positive", "positive", "neutral", "negative", "strong_negative",
     "unknown_tag", "constructor"}

ResultGrid ==
    [predicted_grade : GradeSamples, confidence : {91}, risk_level : RiskSamples,
     risk_score : {12}, recommendations : {<<>>},
     feature_impacts : {[study_hours_weekly |-> tag] : tag \in ImpactSamples}]

\* The initial profile has been submitted and the service has answered 200 with
\* a result of the grid; response.json() is pending.
InitView ==
    /\ formData = InitialFormData
    /\ prediction = null
    /\ loading = TRUE
    /\ error = null
    /\ \E result \in ResultGrid :
          inflight = <<[body |-> JSONstringify(InitialFormData), pc |-> "json",
                        response |-> [ok |-> TRUE, body |-> result]]>>
    /\ lastOp = "handlePredict:response"

NextView ==
    \/ \E i \in DOMAIN inflight : \E message \in ExceptionMessages :
            JsonSettles(i, message)
    \/ handleReset

SpecView == InitView /\ [][NextView]_vars

---------------------------------------------------------------------------
(* FeatureChart on a grid of feature names *)

\* The feature names the service may send: every sequence of at most
\* MaxNameLen characters of the alphabet.
Alphabet == {"a", "b", "_", " "}
FeatureNames == UNION {[1..n -> Alphabet] : n \in 0..MaxNameLen}

\* One feature with either of two tags, or the two features a_b and "A B",
\* whose display names coincide and whose tags differ.
TwoFeatures ==
    (<<"a", "_", "b">> :> "strong_positive") @@ (<<"A", " ", "B">> :> "neutral")
FeatureGrid ==
    {(name :> tag) : name \in FeatureNames, tag \in {"strong_positive", "positive"}}
        \cup {TwoFeatures}

\* As InitView, with the feature impacts of the grid.
InitFeature ==
    /\ formData = InitialFormData
    /\ prediction = null
    /\ loading = TRUE
    /\ error = null
    /\ \E impacts \in FeatureGrid :
          inflight = <<[body |-> JSONstringify(InitialFormData), pc |-> "json",
                        response |->
                            [ok |-> TRUE,
                             body |-> [predicted_grade |-> "A", confidence |-> 91,
                                       risk_level |-> "low", risk_score |-> 12,
                                       recommendations |-> <<>>,
                                       feature_impacts |-> impacts]]]>>
    /\ lastOp = "handlePredict:response"

NextFeature ==
    \/ \E i \in DOMAIN inflight : \E message \in ExceptionMessages :
            JsonSettles(i, message)
    \/ handleReset

SpecFeature == InitFeature /\ [][NextFeature]_vars

---------------------------------------------------------------------------
(* RecommendationList on a grid of recommendation texts *)

\* The words recommendations are made of: keywords of each branch in lower,
\* capitalised and upper case, the pictographs, the warning sign without its
\* variation selector, and a word that is no keyword.
Vocabulary ==
    {<<"u", "r", "g", "e", "n", "t">>,
     <<"C", "r", "i", "t", "i", "c", "a", "l">>,
     <<"U", "R", "G", "E", "N", "T">>,
     <<"SIREN">>,
     <<"i", "m", "p", "r", "o", "v", "e">>,
     <<"F", "o", "c", "u", "s">>,
     <<"WARNING", "VS16">>,
     <<"WARNING">>,
     <<"e", "x", "c", "e", "l", "l", "e", "n", "t">>,
     <<"CHECK">>,
     <<"a", "t", "t", "e", "n", "d", "a", "n", "c", "e">>}

\* words.join(' ') for a non-empty sequence of words.
RECURSIVE Sentence(_)
Sentence(words) ==
    IF Len(words) = 1 THEN words[1]
    ELSE words[1] \o <<" ">> \o Sentence(Tail(words))

\* Every text of one to MaxWords words of the vocabulary.
RecommendationTexts ==
    {Sentence(words) : words \in UNION {[1..n -> Vocabulary] : n \in 1..MaxWords}}

\* As InitView, with one recommendation of the grid in the result.
InitRecommend ==
    /\ formData = InitialFormData
    /\ prediction = null
    /\ loading = TRUE
    /\ error = null
    /\ \E text \in RecommendationTexts :
          inflight = <<[body |-> JSONstringify(InitialFormData), pc |-> "json",
                        response |->
                            [ok |-> TRUE,
                             body |-> [predicted_grade |-> "A", confidence |-> 91,
                                       risk_level |-> "low", risk_score |-> 12,
                                       recommendations |-> <<text>>,
                                       feature_impacts |->
                                           [study_hours_weekly |-> "positive"]]]]>>
    /\ lastOp = "handlePredict:response"

NextRecommend ==
    \/ \E i \in DOMAIN inflight : \E message \in ExceptionMessages :
            JsonSettles(i, message)
    \/ handleReset

SpecRecommend == InitRecommend /\ [][NextRecommend]_vars

---------------------------------------------------------------------------
(* Properties *)

\* v is a number (not NaN) outside lo..hi.
NumberOutside(v, lo, hi) == v # NaN /\ (v < lo \/ v > hi)

\* The four rules of section 4.1 in their order: field, range, message.
Rules ==
    << [field |-> "age", lo |-> AgeMin, hi |-> AgeMax, message |-> AgeMessage],
       [field |-> "study_hours_weekly", lo |-> StudyMin, hi |-> StudyMax,
        message |-> StudyMessage],
       [field |-> "previous_gpa", lo |-> GpaMin, hi |-> GpaMax, message |-> GpaMessage],
       [field |-> "hours_on_platform", lo |-> PlatformMin, hi |-> PlatformMax,
        message |-> PlatformMessage] >>

\* The rules a profile breaks with a number outside the range.
FailingRules(fd) ==
    {k \in DOMAIN Rules : NumberOutside(fd[Rules[k].field], Rules[k].lo, Rules[k].hi)}

\* Every checked field of the profile is a number inside its range.
AllInRange(fd) ==
    \A k \in DOMAIN Rules : fd[Rules[k].field] \in Rules[k].lo .. Rules[k].hi

\* The last step was a run of handleSubmit.
Submitted == lastOp \in {"handleSubmit:invalid", "handleSubmit:sent"}

\* C1: at most one prediction request is outstanding, and while loading is true
\* the submit action is not enabled: no step of handleSubmit can issue a second
\* fetch or leave Submitting.
C1_OneRequestOutstanding ==
    /\ Len(inflight) <= 1
    /\ loading => ~ENABLED handleSubmit

\* A request is in flight, sent by a re-submission from Success.
C1_Witness ==
    /\ loading
    /\ Len(inflight) = 1
    /\ lastOp = "handleSubmit:sent"
    /\ prediction # null

\* C2 (as claimed): after the catch block of handlePredict has handled a failed
\* request, prediction is null and the results panel shows the landing state.
C2_FailureDiscardsResult ==
    lastOp = "handlePredict:catch" => (prediction = null /\ ResultsView = "landing")

\* C3: the step that handles a successful response stores the body of that
\* request's response as prediction, and leaves error null and loading false.
C3_SuccessStoresResult ==
    [][lastOp' = "handlePredict:success" =>
          /\ \E i \in DOMAIN inflight :
                /\ inflight[i].pc = "json"
                /\ inflight[i].response.ok
                /\ prediction' = inflight[i].response.body
          /\ prediction' \in Results
          /\ error' = null
          /\ ~loading']_vars

\* A success has replaced nothing but stored the second result of the service.
C3_Witness ==
    /\ lastOp = "handlePredict:success"
    /\ prediction.predicted_grade = "Z"
    /\ error = null
    /\ ~loading

\* C4: a handleSubmit that validateForm rejects sends no request, leaves loading
\* false, leaves prediction and formData as they were and sets error to the
\* message of validateForm.
C4_InvalidSubmitSendsNothing ==
    [][lastOp' = "handleSubmit:invalid" =>
          /\ validateForm(formData) # null
          /\ error' = validateForm(formData)
          /\ inflight' = inflight
          /\ inflight' = <<>>
          /\ ~loading /\ ~loading'
          /\ prediction' = prediction
          /\ formData' = formData]_vars

\* A rejected submit next to a stored prediction.
C4_Witness ==
    /\ lastOp = "handleSubmit:invalid"
    /\ error = AgeMessage
    /\ prediction # null
    /\ ~loading
    /\ inflight = <<>>

\* C6: the step of handleReset sets prediction and error to null together, and
\* the results panel then shows the landing state.
C6_ResetClearsBoth ==
    [][lastOp' = "handleReset" =>
          /\ prediction # null
          /\ prediction' = null
          /\ error' = null
          /\ ResultsView' = "landing"]_vars

\* The state after a reset.
C6_Witness ==
    /\ lastOp = "handleReset"
    /\ prediction = null
    /\ error = null
    /\ ResultsView = "landing"

\* C7 (as claimed): every request body has its four checked fields in range.
C7_RequestBodiesInRange ==
    \A i \in DOMAIN inflight :
        /\ inflight[i].body.age \in AgeMin .. AgeMax
        /\ inflight[i].body.study_hours_weekly \in StudyMin .. StudyMax
        /\ inflight[i].body.previous_gpa \in GpaMin .. GpaMax
        /\ inflight[i].body.hours_on_platform \in PlatformMin .. PlatformMax

\* C8: for a profile whose age is a number below 18 or above 25, whatever the
\* other eight fields hold, validateForm returns the age message, and the
\* handleSubmit step sets error to it and sends no request.
C8_AgeOutsideRejected ==
    [][(Submitted' /\ NumberOutside(formData.age, AgeMin, AgeMax)) =>
          /\ validateForm(formData) = AgeMessage
          /\ lastOp' = "handleSubmit:invalid"
          /\ error' = AgeMessage
          /\ inflight' = inflight
          /\ ~loading']_vars

\* A submit of a profile with age 26 and every other checked field out of range
\* too has been rejected with the age message.
C8_Witness ==
    /\ lastOp = "handleSubmit:invalid"
    /\ formData.age = AgeMax + Margin
    /\ formData.study_hours_weekly = StudyMin - Margin
    /\ formData.previous_gpa = NaN
    /\ error = AgeMessage
    /\ inflight = <<>>

\* C9: validateForm returns null for every profile whose four checked fields are
\* inside their inclusive ranges, and a message for every profile in which one
\* of them is a number outside its range; handleSubmit sends or rejects
\* accordingly.
C9_ValidateMatchesRanges ==
    /\ AllInRange(formData) => validateForm(formData) = null
    /\ FailingRules(formData) # {} => validateForm(formData) # null
    /\ lastOp = "handleSubmit:sent" => FailingRules(formData) = {}
    /\ lastOp = "handleSubmit:invalid" => ~AllInRange(formData)

\* A profile on the bounds 18, 40, 5.0 and 200 has been accepted and sent.
C9_Witness ==
    /\ lastOp = "handleSubmit:sent"
    /\ formData.age = AgeMin
    /\ formData.study_hours_weekly = StudyMax
    /\ formData.previous_gpa = GpaMin
    /\ formData.hours_on_platform = PlatformMax
    /\ Len(inflight) = 1

\* The least element of a non-empty set of numbers.
Least(set) == CHOOSE k \in set : \A other \in set : k <= other

\* C10: when a profile breaks one or several rules, validateForm returns the
\* message of the first broken rule in the order age, study hours, previous
\* GPA, platform hours, and that one message is what handleSubmit reports.
C10_FirstFailingRule ==
    FailingRules(formData) # {} =>
        /\ validateForm(formData) = Rules[Least(FailingRules(formData))].message
        /\ lastOp = "handleSubmit:invalid" =>
              error = Rules[Least(FailingRules(formData))].message

\* Study hours, GPA and platform hours are out of range, age is not: the
\* study-hours message has been reported.
C10_Witness ==
    /\ lastOp = "handleSubmit:invalid"
    /\ FailingRules(formData) = {2, 3, 4}
    /\ error = StudyMessage

\* Invocation i of handlePredict holds a non-success response whose body parsed.
ServiceErrorPending(i) ==
    /\ inflight[i].pc = "json"
    /\ ~inflight[i].response.ok
    /\ inflight[i].response.body # Malformed

\* C11 (as claimed): after a non-success response the stored error is the error
\* field of the body whenever the body has that field, and "Prediction failed"
\* when it has not; prediction is left as it was.
C11_ServiceErrorVerbatim ==
    [][\A i \in DOMAIN inflight :
          (ServiceErrorPending(i) /\ lastOp' = "handlePredict:catch") =>
              /\ error' = IF inflight[i].response.body.error # undefined
                          THEN inflight[i].response.body.error
                          ELSE S("Prediction failed")
              /\ prediction' = prediction]_vars

\* C11 (amended): after a non-success response the stored error is the error
\* field of the body when that field is a non-empty string, and "Prediction
\* failed" when the field is absent or the empty string; prediction is left as
\* it was.
C11_ServiceErrorMessage ==
    [][\A i \in DOMAIN inflight :
          (ServiceErrorPending(i) /\ lastOp' = "handlePredict:catch") =>
              /\ error' = IF inflight[i].response.body.error \notin {undefined, S("")}
                          THEN inflight[i].response.body.error
                          ELSE S("Prediction failed")
              /\ error' # null
              /\ prediction' = prediction]_vars

\* The service's own message is stored after a non-success response, next to
\* no prediction.
C11_Witness ==
    /\ lastOp = "handlePredict:catch"
    /\ error = S("Invalid input data")
    /\ prediction = null
    /\ ~loading

\* Invocation i of handlePredict is about to fail in transport: its fetch has
\* not resolved, or its response body is not JSON.
TransportFailurePending(i) ==
    \/ inflight[i].pc = "fetch"
    \/ inflight[i].pc = "json" /\ inflight[i].response.body = Malformed

\* C12 (as claimed): after every transport failure the stored error is the
\* generic "Failed to connect to API".
C12_TransportErrorGeneric ==
    [][\A i \in DOMAIN inflight :
          (TransportFailurePending(i) /\ lastOp' = "handlePredict:catch") =>
              error' = S("Failed to connect to API")]_vars

\* C13: a handleSubmit step that sends a request starts from loading false with
\* a valid profile, whatever prediction and error hold (no reset in between),
\* and ends with loading true, error null and the request in flight.
C13_ResubmitEntersSubmitting ==
    [][lastOp' = "handleSubmit:sent" =>
          /\ ~loading
          /\ validateForm(formData) = null
          /\ loading'
          /\ error' = null
          /\ prediction' = prediction
          /\ inflight' = <<[body |-> JSONstringify(formData), pc |-> "fetch",
                            response |-> null]>>]_vars

\* A request sent from Success: the earlier prediction is still stored.
C13_Witness ==
    /\ lastOp = "handleSubmit:sent"
    /\ loading
    /\ error = null
    /\ prediction # null
    /\ Len(inflight) = 1

\* The invocations of handlePredict whose fetch has been issued and not answered.
PendingFetches(calls) == {i \in DOMAIN calls : calls[i].pc = "fetch"}

\* C14: a fetch is issued only by a handleSubmit step that passed validation,
\* and that step issues exactly one; the step that handles a failure issues
\* none and leaves no invocation behind.
C14_OneRequestPerSubmit ==
    [][/\ lastOp' = "handleSubmit:sent" =>
             /\ Len(inflight') = Len(inflight) + 1
             /\ Cardinality(PendingFetches(inflight')) =
                    Cardinality(PendingFetches(inflight)) + 1
       /\ lastOp' # "handleSubmit:sent" =>
             /\ Len(inflight') <= Len(inflight)
             /\ Cardinality(PendingFetches(inflight')) <=
                    Cardinality(PendingFetches(inflight))
       /\ lastOp' = "handlePredict:catch" =>
             /\ inflight' = <<>>
             /\ ~loading']_vars

\* A request has failed and nothing is in flight after it.
C14_Witness ==
    /\ lastOp = "handlePredict:catch"
    /\ inflight = <<>>
    /\ ~loading
    /\ error = S("Failed to fetch")

\* C15: while loading is true no input handler and no sample button is enabled,
\* and the body of the request in flight is the serialisation of formData.
C15_ProfileFrozenInFlight ==
    loading =>
        /\ \A field \in Fields : \A value \in InputValues(field) :
              ~ENABLED handleInputChange(field, value)
        /\ \A k \in DOMAIN SAMPLE_STUDENTS : ~ENABLED loadSampleStudent(SAMPLE_STUDENTS[k])
        /\ Len(inflight) = 1
        /\ inflight[1].body = JSONstringify(formData)

\* The response of a request for an edited profile has arrived and the form
\* still holds that profile.
C15_Witness ==
    /\ loading
    /\ lastOp = "handlePredict:response"
    /\ formData # InitialFormData
    /\ inflight[1].body = JSONstringify(formData)

\* C16: formData has exactly the nine StudentProfile keys, and so has every
\* request body.
C16_NineProfileKeys ==
    /\ DOMAIN formData = Fields
    /\ Cardinality(DOMAIN formData) = 9
    /\ \A i \in DOMAIN inflight : DOMAIN inflight[i].body = Fields

\* A request for a sample profile that was edited afterwards is in flight.
C16_Witness ==
    /\ Len(inflight) = 1
    /\ DOMAIN inflight[1].body = Fields
    /\ formData.age = SAMPLE_STUDENTS[3].data.age
    /\ formData.midterm_score = SliderMax
    /\ formData.gender = "M"

\* The description section 4.4 gives for a grade.
ExpectedDescription(grade) ==
    CASE grade = "S" -> S("Outstanding Performance")
      [] grade = "A" -> S("Excellent Work")
      [] grade = "B" -> S("Good Performance")
      [] grade = "C" -> S("Satisfactory")
      [] grade = "D" -> S("Needs Improvement")
      [] grade = "F" -> S("Requires Intervention")
      [] OTHER -> S("Grade Predicted")

\* C17 (as claimed): the description shown for a stored prediction is the one
\* of its grade for S, A, B, C, D and F, and "Grade Predicted" for every other
\* grade.
C17_GradeDescriptionTotal ==
    ResultsView = "results" =>
        ResultCardDescription = ExpectedDescription(prediction.predicted_grade)

\* C18 (as claimed): for every risk level other than low, medium and high the
\* config RiskBadge renders from is the one of medium, with its icon, label and
\* description.
C18_RiskConfigTotal ==
    (ResultsView = "results" /\ prediction.risk_level \notin {"low", "medium", "high"}) =>
        /\ RiskBadgeConfig = getRiskConfig("medium")
        /\ Prop(RiskBadgeConfig, "icon") = "AlertCircle"
        /\ Prop(RiskBadgeConfig, "label") = "Medium Risk"
        /\ Prop(RiskBadgeConfig, "description") = "Monitor student progress"

\* The bar width section 4.4 gives for an impact tag.
ExpectedWidth(impact) ==
    CASE impact \in {"strong_positive", "strong_negative"} -> N(100)
      [] impact \in {"positive", "negative"} -> N(70)
      [] OTHER -> N(40)

\* C19 (as claimed): the bar width of every feature of a stored prediction is
\* 100, 70 or 40 as its tag says, 40 for an unrecognised tag, and always one of
\* the numbers 40, 70, 100.
C19_ImpactWidthTotal ==
    ResultsView = "results" =>
        \A feature \in DOMAIN prediction.feature_impacts :
            /\ FeatureChartWidths[feature] =
                   ExpectedWidth(prediction.feature_impacts[feature])
            /\ FeatureChartWidths[feature] \in {N(40), N(70), N(100)}

\* The profile and the result of the end-to-end example of section 8.
ExampleProfile == SAMPLE_STUDENTS[1].data
ExampleResult ==
    CHOOSE result \in Results :
        /\ result.predicted_grade = "A"
        /\ result.risk_level = "low"
        /\ result.feature_impacts = [study_hours_weekly |-> "strong_positive"]

\* C20: the example profile (age 21, study hours 32, GPA 9.2, platform hours
\* 150) passes validateForm; its submit puts exactly one request with that
\* profile in flight; and once the service's result with grade A, risk low and
\* impact strong_positive is stored for it, loading is false, error is null, the
\* result cards are shown, the description is "Excellent Work", the risk label
\* "Low Risk" and the bar width 100.
C20_EndToEnd ==
    formData = ExampleProfile =>
        /\ validateForm(formData) = null
        /\ lastOp = "handleSubmit:sent" =>
              /\ loading
              /\ inflight = <<[body |-> ExampleProfile, pc |-> "fetch",
                               response |-> null]>>
        /\ (lastOp = "handlePredict:success" /\ prediction = ExampleResult) =>
              /\ ~loading
              /\ error = null
              /\ inflight = <<>>
              /\ ResultsView = "results"
              /\ ResultCardDescription = S("Excellent Work")
              /\ Prop(RiskBadgeConfig, "label") = "Low Risk"
              /\ FeatureChartWidths = [study_hours_weekly |-> N(100)]

\* The example has run to Success.
C20_Witness ==
    /\ formData = ExampleProfile
    /\ lastOp = "handlePredict:success"
    /\ prediction = ExampleResult
    /\ ResultsView = "results"

\* The fields validateForm reads, and the profiles that agree with fd on them:
\* fd with any gender and any number, NaN included, in the other four fields.
CheckedFields == {"age", "study_hours_weekly", "previous_gpa", "hours_on_platform"}
UncheckedSamples == {SliderMin, SliderMax, NaN}
SameCheckedFields(fd) ==
    {[fd EXCEPT !.gender = g, !.attendance_percent = a,
                !.assignments_completed = c, !.participation_score = p,
                !.midterm_score = m] :
        g \in {"M", "F"}, a \in UncheckedSamples, c \in UncheckedSamples,
        p \in UncheckedSamples, m \in UncheckedSamples}

\* C21: validateForm does not depend on gender, attendance_percent,
\* assignments_completed, participation_score or midterm_score: every profile
\* that agrees with the form's profile on age, study_hours_weekly, previous_gpa
\* and hours_on_platform gets the same result from validateForm, and the
\* outcome of the submit (error shown, or request sent) is that result.
C21_UncheckedFieldsIgnored ==
    /\ \A other \in SameCheckedFields(formData) :
          validateForm(other) = validateForm(formData)
    /\ lastOp = "handleSubmit:invalid" =>
          \A other \in SameCheckedFields(formData) : validateForm(other) = error
    /\ lastOp = "handleSubmit:sent" =>
          \A other \in SameCheckedFields(formData) : validateForm(other) = null

\* A profile with every unchecked slider at 0 has been submitted and sent.
C21_Witness ==
    /\ lastOp = "handleSubmit:sent"
    /\ formData.attendance_percent = SliderMin
    /\ formData.assignments_completed = SliderMin
    /\ formData.participation_score = SliderMin
    /\ formData.midterm_score = SliderMin

\* The display name the claim describes, character by character: a space where
\* the name has an underscore or a space, the upper-case letter where a word
\* starts, the character itself elsewhere.
WordBreak(c) == c \in {"_", " "}
DisplayName(name) ==
    [i \in 1..Len(name) |->
        IF WordBreak(name[i]) THEN " "
        ELSE IF i = 1 \/ WordBreak(name[i - 1]) THEN toUpperCase(name[i])
        ELSE name[i]]

\* C22: formatFeatureName replaces every underscore by a space and capitalises
\* the first letter of each word, and it is used for the label only: the rows of
\* the chart are keyed by the feature names as the service sent them, one row
\* per name, and each row's width is that of the tag stored under its own name.
C22_FormatForDisplayOnly ==
    ResultsView = "results" =>
        /\ {row.key : row \in FeatureChartRows} = DOMAIN prediction.feature_impacts
        /\ Cardinality(FeatureChartRows) = Cardinality(DOMAIN prediction.feature_impacts)
        /\ \A row \in FeatureChartRows :
              /\ row.label = DisplayName(row.key)
              /\ row.width = getImpactWidth(prediction.feature_impacts[row.key])

\* The result with the features a_b and "A B" is shown: two rows with the same
\* label "A B", the widths 100 and 40 of their own tags.
C22_Witness ==
    /\ lastOp = "handlePredict:success"
    /\ ResultsView = "results"
    /\ FeatureChartRows =
          {[key |-> <<"a", "_", "b">>, label |-> <<"A", " ", "B">>, width |-> N(100)],
           [key |-> <<"A", " ", "B">>, label |-> <<"A", " ", "B">>, width |-> N(40)]}

\* The lifecycle states of the workflow.
Submitting == loading
Success == ~loading /\ prediction # null /\ error = null
Failed == ~loading /\ error # null

\* C23: every submission terminates.  The step that handles the service's
\* answer or the transport failure sets loading to false and leaves the
\* workflow in Success or Failed; and, when every request eventually completes
\* or fails, Submitting always leads to Success or Failed.
C23_SubmissionTerminates ==
    /\ [][lastOp' \in {"handlePredict:catch", "handlePredict:success"} =>
            ~loading' /\ inflight' = <<>> /\ (Success' \/ Failed')]_vars
    /\ Submitting ~> (Success \/ Failed)

\* A submission has ended in Failed after its fetch was answered.
C23_Witness ==
    /\ lastOp = "handlePredict:catch"
    /\ Failed
    /\ inflight = <<>>

\* C24: a request that never receives a response does not keep the controller
\* in Submitting forever: whenever a request waits for the service, a step that
\* needs no answer from the service (the expiry of a timeout) can move the
\* workflow from Submitting to Failed.
C24_TimeoutEndsSubmitting ==
    (Submitting /\ inflight # <<>>) => ENABLED (LocalStep /\ Failed')

\* C25: in every reachable state with loading true the stored error is null.
C25_NoErrorWhileLoading == loading => error = null

\* A new request is in flight over a stored prediction, and no error is stored.
C25_Witness ==
    /\ loading
    /\ error = null
    /\ lastOp = "handleSubmit:sent"
    /\ prediction # null

\* C26: loading is true exactly when one request has been sent whose response
\* or failure has not yet been handled; there is never more than one.
C26_LoadingIffOutstanding ==
    /\ Len(inflight) \in {0, 1}
    /\ loading <=> Len(inflight) = 1

\* The response of the one outstanding request has arrived and is being read.
C26_Witness ==
    /\ loading
    /\ Len(inflight) = 1
    /\ inflight[1].pc = "json"

\* C27: a step of handleInputChange or loadSampleStudent sets error to null,
\* whatever the error was, and leaves prediction, loading and the requests in
\* flight unchanged.
C27_EditClearsErrorOnly ==
    [][lastOp' \in {"handleInputChange", "loadSampleStudent"} =>
            /\ error' = null
            /\ prediction' = prediction
            /\ loading' = loading
            /\ inflight' = inflight]_vars

\* A sample has been loaded over a stored prediction.
C27_Witness ==
    /\ lastOp = "loadSampleStudent"
    /\ formData = SAMPLE_STUDENTS[3].data
    /\ prediction # null
    /\ error = null

\* C28: the reset action is enabled exactly when loading is false and a
\* prediction is stored: never while Submitting, nor from Idle or Failed
\* without a stored prediction.
C28_ResetOnlyWithResult ==
    (ENABLED handleReset) <=> (~loading /\ prediction # null)

\* Reset has fired and, with no prediction left, is not enabled again.
C28_Witness ==
    /\ lastOp = "handleReset"
    /\ prediction = null
    /\ ~ENABLED handleReset

\* The three-view scheme for a results panel showing view.
ThreeViews(view) ==
    /\ view \in {"skeleton", "results", "landing"}
    /\ view = "skeleton" <=> loading
    /\ view = "results" <=> (~loading /\ prediction # null)
    /\ view = "landing" <=> (~loading /\ prediction = null)
    /\ inflight # <<>> => view # "results"

\* C29 as stated: in every state the results panel of either App shows exactly
\* one of three views, chosen by (loading, prediction): the skeleton if loading,
\* the result cards if not loading and a prediction is stored, the landing
\* state otherwise; a stored grade is never displayed while a request is in
\* flight.
C29_ThreeViews == ThreeViews(ResultsView) /\ ThreeViews(App1ResultsView)

\* C29, amended: the panel of the App with the loading skeleton follows the
\* three-view scheme and never displays a stored grade while a request is in
\* flight; the panel of the first App shows the result cards exactly when a
\* prediction is stored, in flight or not, and the landing state otherwise, so
\* that it agrees with the scheme exactly in the states with loading false.
C29_ThreeViewsWithSkeleton ==
    /\ ThreeViews(ResultsView)
    /\ App1ResultsView = "results" <=> prediction # null
    /\ App1ResultsView = "landing" <=> prediction = null
    /\ ThreeViews(App1ResultsView) <=> ~loading

\* A new request is in flight over a stored prediction: the skeleton in one
\* App, the old result cards in the other.
C29_Witness ==
    /\ lastOp = "handleSubmit:sent"
    /\ inflight # <<>>
    /\ prediction # null
    /\ ResultsView = "skeleton"
    /\ App1ResultsView = "results"

\* C30: the initial form profile and each of the three SAMPLE_STUDENTS pass
\* validateForm, so a submit right after the first render or right after
\* loading a sample sends a request with that profile and stores no
\* validation error.
C30_SamplesPassValidation ==
    /\ validateForm(InitialFormData) = null
    /\ \A k \in DOMAIN SAMPLE_STUDENTS : validateForm(SAMPLE_STUDENTS[k].data) = null
    /\ [][(/\ lastOp \in {"init", "loadSampleStudent"}
           /\ lastOp' \in {"handleSubmit:invalid", "handleSubmit:sent"}) =>
              /\ lastOp' = "handleSubmit:sent"
              /\ error' = null
              /\ loading'
              /\ \E i \in DOMAIN inflight' :
                    inflight'[i] = [body |-> JSONstringify(formData), pc |-> "fetch",
                                    response |-> null]]_vars

\* The At-Risk sample has been loaded and submitted: its request is in flight.
C30_Witness ==
    /\ lastOp = "handleSubmit:sent"
    /\ formData = SAMPLE_STUDENTS[3].data
    /\ inflight = <<[body |-> SAMPLE_STUDENTS[3].data, pc |-> "fetch",
                     response |-> null]>>
    /\ error = null

\* C31: getRecommendationColor gives the red class to every recommendation
\* whose text contains 'urgent', 'critical' or the siren marker (in any letter
\* case), whatever other keywords the text also contains, and returns exactly
\* one of the four classes green, yellow, red, blue for every text.
C31_UrgentAlwaysRed ==
    ResultsView = "results" =>
        \A idx \in DOMAIN prediction.recommendations :
            /\ RecommendationColors[idx] \in {Green, Yellow, Red, Blue}
            /\ (\E keyword \in UrgentKeywords :
                    includes(toLowerCase(prediction.recommendations[idx]), keyword))
                  => RecommendationColors[idx] = Red

====
